---- MODULE Spec2Model ----
(***************************************************************************)
(* Model of crypto_dashboard.py: the Quote Client (CoinGeckoAPI) and the   *)
(* Dashboard Loop (CryptoDashboard.run / display / format_price_change).   *)
(*                                                                         *)
(* Representation.                                                         *)
(*  - Text is a sequence of one-character strings; an ANSI escape          *)
(*    sequence is the five (or four) characters Colors gives it.           *)
(*  - A JSON number is an integer count of eighths (k stands for k/8), so  *)
(*    that every value is an exact binary float and the ".2f" conversion   *)
(*    is exact round-half-to-even on the value.                            *)
(*  - A JSON value is a tagged record; Python None is [t |-> "None"].      *)
(*  - Exceptions follow the class hierarchy of requests >= 2.27, where     *)
(*    requests.exceptions.JSONDecodeError is a RequestException.           *)
(*  - The user sends at most one interrupt (SIGINT) per run.               *)
(***************************************************************************)
EXTENDS Integers, Sequences, FiniteSets, TLC

VARIABLES coins, update_interval, pc, prices, outcome, screen, log,
          attempts, slept, now, rowIdx, rendered, cleared, closed,
          exitStatus, interrupted, raised, lastStatus, firstTable

vars == <<coins, update_interval, pc, prices, outcome, screen, log,
          attempts, slept, now, rowIdx, rendered, cleared, closed,
          exitStatus, interrupted, raised, lastStatus, firstTable>>

(***************************************************************************)
(* Bounds of the model.                                                    *)
(***************************************************************************)
MaxCycles == 2
MaxCoins == 2

(***************************************************************************)
(* Text helpers.                                                           *)
(***************************************************************************)
Range(s) == {s[i] : i \in 1..Len(s)}

Spaces(n) == [i \in 1..n |-> " "]

\* f"{s:>w}"
PadLeft(s, w) == IF Len(s) >= w THEN s ELSE Spaces(w - Len(s)) \o s

\* f"{s:<w}"
PadRight(s, w) == IF Len(s) >= w THEN s ELSE s \o Spaces(w - Len(s))

DigitChar(d) == <<"0", "1", "2", "3", "4", "5", "6", "7", "8", "9">>[d + 1]

RECURSIVE Digits(_)
Digits(n) == IF n < 10 THEN <<DigitChar(n)>>
             ELSE Digits(n \div 10) \o <<DigitChar(n % 10)>>

\* the "," option of the format mini-language: groups of three digits
RECURSIVE Grouped(_)
Grouped(n) == IF n < 1000 THEN Digits(n)
              ELSE Grouped(n \div 1000) \o <<",">>
                   \o <<DigitChar((n % 1000) \div 100),
                        DigitChar((n % 100) \div 10),
                        DigitChar(n % 10)>>

Abs(k) == IF k < 0 THEN -k ELSE k

\* number of hundredths nearest to k/8 (k >= 0), ties to the even neighbour
Hundredths(k) ==
    LET q == (k * 100) \div 8
        r == (k * 100) % 8
    IN  IF 2 * r > 8 \/ (2 * r = 8 /\ q % 2 = 1) THEN q + 1 ELSE q

\* f"{x:.2f}" (comma = FALSE) and f"{x:,.2f}" (comma = TRUE) for x = k/8
Fixed2(k, comma) ==
    LET h == Hundredths(Abs(k))
        whole == IF comma THEN Grouped(h \div 100) ELSE Digits(h \div 100)
    IN  (IF k < 0 THEN <<"-">> ELSE <<>>) \o whole \o <<".">>
        \o <<DigitChar((h % 100) \div 10), DigitChar(h % 10)>>

LowerCase == <<"a", "b", "c", "d", "e", "h", "t">>
UpperCase == <<"A", "B", "C", "D", "E", "H", "T">>

IndexIn(c, s) == IF c \in Range(s) THEN CHOOSE i \in 1..Len(s) : s[i] = c
                 ELSE 0

Upper(c) == IF IndexIn(c, LowerCase) > 0 THEN UpperCase[IndexIn(c, LowerCase)]
            ELSE c

Lower(c) == IF IndexIn(c, UpperCase) > 0 THEN LowerCase[IndexIn(c, UpperCase)]
            ELSE c

\* str.capitalize(): first character upper-cased, the others lower-cased
Capitalize(s) == [i \in 1..Len(s) |-> IF i = 1 THEN Upper(s[i]) ELSE Lower(s[i])]

\* sep.join(parts)
RECURSIVE Join(_, _)
Join(parts, sep) ==
    IF Len(parts) = 0 THEN <<>>
    ELSE IF Len(parts) = 1 THEN parts[1]
    ELSE parts[1] \o sep \o Join(Tail(parts), sep)

(***************************************************************************)
(* class Colors                                                            *)
(***************************************************************************)
GREEN == <<"ESC", "[", "9", "2", "m">>
RED == <<"ESC", "[", "9", "1", "m">>
RESET == <<"ESC", "[", "0", "m">>
BOLD == <<"ESC", "[", "1", "m">>

UpArrow == "UP"
DownArrow == "DOWN"
NA == <<"N", "/", "A">>

(***************************************************************************)
(* JSON values and the answers of the transport.                           *)
(***************************************************************************)
Absent == [t |-> "absent", v |-> 0]
Null == [t |-> "null", v |-> 0]
Str == [t |-> "str", v |-> 0]
Num(k) == [t |-> "num", v |-> k]

Obj(usd, chg) == [t |-> "obj", usd |-> usd, usd_24h_change |-> chg]
EmptyObj == Obj(Absent, Absent)
NonObj == [t |-> "num", usd |-> Absent, usd_24h_change |-> Absent]

None == [t |-> "None", m |-> <<>>]
Dict(m) == [t |-> "dict", m |-> m]
List == [t |-> "list", m |-> <<>>]

BTC == <<"b", "t", "c">>
ETH == <<"e", "T", "h">>
Ids == {BTC, ETH}

\* prices and changes of a Quote: absent, malformed, negative, zero, positive
PriceFields == {Absent, Num(-8), Num(0), Num(520005)}
ChangeFields == {Absent, Str, Num(-1), Num(0), Num(3)}

BtcEntries == {Obj(p, c) : p \in PriceFields, c \in ChangeFields}
              \cup {Obj(Null, Absent), NonObj}
EthEntries == {Obj(Num(520005), Num(-1))}

Dicts ==
    {Dict(m) : m \in
        UNION {[K -> BtcEntries \cup EthEntries] : K \in SUBSET Ids}}

WellTyped(m) == /\ BTC \in DOMAIN m => m[BTC] \in BtcEntries
                /\ ETH \in DOMAIN m => m[ETH] \in EthEntries

Bodies == {d \in Dicts : WellTyped(d.m)} \cup {None, List}

GoodBody == Dict([k \in Ids |-> Obj(Num(520005), Num(-1))])

Throws(exc, msg) ==
    [kind |-> exc, msg |-> msg, status |-> 0, parseable |-> FALSE, body |-> None]
Response(status, parseable, body) ==
    [kind |-> "Response", msg |-> "", status |-> status,
     parseable |-> parseable, body |-> body]

\* what session.get hands back: an exception of requests or a response
TransportOutcomes ==
    {Throws("ReadTimeout", ""), Throws("ConnectTimeout", ""),
     Throws("ConnectionError", ""),
     Throws("TooManyRedirects", "Exceeded 30 redirects.")}
    \cup {Response(200, TRUE, b) : b \in Bodies}
    \cup {Response(200, FALSE, None)}
    \cup {Response(300, TRUE, GoodBody), Response(404, TRUE, GoodBody)}

CoinLists == UNION {[1..n -> Ids] : n \in 1..MaxCoins}
Intervals == {-1, 0, 10}

(***************************************************************************)
(* CoinGeckoAPI.fetch_prices                                               *)
(***************************************************************************)
Record(level, msg, arg) == [level |-> level, msg |-> msg, arg |-> arg]

\* Response.raise_for_status raises HTTPError for 4xx and 5xx
RaisesForStatus(status) == status >= 400 /\ status < 600

\* the exception raised inside the try block, "none" when json() returns
TryBlock(t) ==
    IF t.kind # "Response" THEN t.kind
    ELSE IF RaisesForStatus(t.status) THEN "HTTPError"
    ELSE IF ~t.parseable THEN "JSONDecodeError"
    ELSE "none"

\* variant: the hierarchy of requests before 2.27, where json() raises a plain
\* ValueError that is no RequestException
IsInstance_ValueError(exc, cls) ==
    CASE cls = "Timeout" -> exc \in {"ReadTimeout", "ConnectTimeout"}
      [] cls = "ConnectionError" -> exc \in {"ConnectionError", "ConnectTimeout"}
      [] cls = "HTTPError" -> exc = "HTTPError"
      [] cls = "RequestException" ->
            exc \in {"ReadTimeout", "ConnectTimeout", "ConnectionError",
                     "HTTPError", "TooManyRedirects"}
      [] OTHER -> FALSE

\* the classes of requests.exceptions an exception is an instance of
IsInstance(exc, cls) ==
    CASE cls = "Timeout" -> exc \in {"ReadTimeout", "ConnectTimeout"}
      [] cls = "ConnectionError" -> exc \in {"ConnectionError", "ConnectTimeout"}
      [] cls = "HTTPError" -> exc = "HTTPError"
      [] cls = "RequestException" ->
            exc \in {"ReadTimeout", "ConnectTimeout", "ConnectionError",
                     "HTTPError", "TooManyRedirects", "JSONDecodeError"}
      [] OTHER -> FALSE

\* the except clause that handles exc, in textual order; "none": it escapes
ExceptClause(exc) ==
    IF IsInstance(exc, "Timeout") THEN "Timeout"
    ELSE IF IsInstance(exc, "ConnectionError") THEN "ConnectionError"
    ELSE IF IsInstance(exc, "HTTPError") THEN "HTTPError"
    ELSE IF IsInstance(exc, "RequestException") THEN "RequestException"
    ELSE "none"

\* str(e) of the exception raised for t
ExcText(t) == IF TryBlock(t) = "JSONDecodeError"
              THEN "Expecting value: line 1 column 1 (char 0)"
              ELSE t.msg

\* the record logged by the except clause taken
ClientLog(t) ==
    CASE ExceptClause(TryBlock(t)) = "Timeout" ->
            <<Record("ERROR", "Request timed out", <<>>)>>
      [] ExceptClause(TryBlock(t)) = "ConnectionError" ->
            <<Record("ERROR",
                     "Connection error - check your internet connection", <<>>)>>
      [] ExceptClause(TryBlock(t)) = "HTTPError" ->
            <<Record("ERROR", "HTTP error: ", <<ToString(t.status)>>)>>
      [] ExceptClause(TryBlock(t)) = "RequestException" ->
            <<Record("ERROR", "Request failed: ", <<ExcText(t)>>)>>
      [] OTHER -> <<>>

\* ret: the value returned; escapes: the exception that leaves the call
fetch_prices(t) ==
    [ret |-> IF TryBlock(t) = "none" THEN t.body ELSE None,
     logs |-> ClientLog(t),
     escapes |-> IF TryBlock(t) # "none" /\ ExceptClause(TryBlock(t)) = "none"
                 THEN TryBlock(t) ELSE "none"]

\* the failure kind of the taxonomy an outcome of the transport falls under
FailureKind(t) ==
    CASE TryBlock(t) = "none" -> "Success"
      [] TryBlock(t) \in {"ReadTimeout", "ConnectTimeout"} -> "Timeout"
      [] TryBlock(t) = "ConnectionError" -> "ConnectionFailure"
      [] TryBlock(t) = "HTTPError" -> "HTTPStatusError"
      [] TryBlock(t) = "JSONDecodeError" -> "ParseError"
      [] OTHER -> "OtherTransportError"

FailureKinds == {"Timeout", "ConnectionFailure", "HTTPStatusError",
                 "ParseError", "OtherTransportError"}

(***************************************************************************)
(* CryptoDashboard.format_price_change and the rows of display             *)
(***************************************************************************)
\* variant: the number is formatted without abs()
format_price_change_Signed(change) ==
    LET arrow == IF change >= 0 THEN UpArrow ELSE DownArrow
        color == IF change >= 0 THEN GREEN ELSE RED
    IN  color \o <<arrow, " ">> \o PadLeft(Fixed2(change, FALSE), 7)
        \o <<"%">> \o RESET

format_price_change(change) ==
    LET arrow == IF change >= 0 THEN UpArrow ELSE DownArrow
        color == IF change >= 0 THEN GREEN ELSE RED
    IN  color \o <<arrow, " ">> \o PadLeft(Fixed2(Abs(change), FALSE), 7)
        \o <<"%">> \o RESET

\* dict.get(key, default) on a parsed object
Get(data, key, default) ==
    LET f == IF key = "usd" THEN data.usd ELSE data.usd_24h_change
    IN  IF f = Absent THEN default ELSE f

\* prices.get(coin_id, {})
Lookup(p, coin_id) == IF coin_id \in DOMAIN p.m THEN p.m[coin_id] ELSE EmptyObj

Raises(exc) == [ok |-> FALSE, exc |-> exc, name |-> <<>>, price_str |-> <<>>,
                change_str |-> <<>>]

\* variant: the change cell is gated by the change itself, not by the price
DisplayRow_ChangeUngated(coin_id, p) ==
    IF p.t # "dict" THEN Raises("AttributeError")
    ELSE LET data == Lookup(p, coin_id) IN
         IF data.t # "obj" THEN Raises("AttributeError")
         ELSE LET price == Get(data, "usd", Num(0))
                  change == Get(data, "usd_24h_change", Num(0))
              IN  IF price.t # "num" THEN Raises("TypeError")
                  ELSE IF change.t # "num" THEN Raises("TypeError")
                  ELSE [ok |-> TRUE, exc |-> "",
                        name |-> Capitalize(coin_id),
                        price_str |-> IF price.v > 0
                                      THEN <<"$">> \o Fixed2(price.v, TRUE)
                                      ELSE NA,
                        change_str |-> format_price_change(change.v)]

\* one turn of the for loop of display: the row printed, or the exception
DisplayRow(coin_id, p) ==
    IF p.t # "dict" THEN Raises("AttributeError")
    ELSE LET data == Lookup(p, coin_id) IN
         IF data.t # "obj" THEN Raises("AttributeError")
         ELSE LET price == Get(data, "usd", Num(0))
                  change == Get(data, "usd_24h_change", Num(0))
              IN  IF price.t # "num" THEN Raises("TypeError")
                  ELSE IF price.v > 0 /\ change.t # "num"
                       THEN Raises("TypeError")
                  ELSE [ok |-> TRUE, exc |-> "",
                        name |-> Capitalize(coin_id),
                        price_str |-> IF price.v > 0
                                      THEN <<"$">> \o Fixed2(price.v, TRUE)
                                      ELSE NA,
                        change_str |-> IF price.v > 0
                                       THEN format_price_change(change.v)
                                       ELSE NA]

\* f"{coin_id.capitalize():<15} {price_str:>15} {change_str:>15}"
RowLine(r) ==
    [kind |-> "row", name |-> r.name, price_str |-> r.price_str,
     change_str |-> r.change_str,
     text |-> PadRight(r.name, 15) \o <<" ">> \o PadLeft(r.price_str, 15)
              \o <<" ">> \o PadLeft(r.change_str, 15)]

Line(kind) == [kind |-> kind, name |-> <<>>, price_str |-> <<>>,
               change_str |-> <<>>, text |-> <<>>]

\* truth value of a returned object in "if prices:"
Truthy(p) == \/ p.t = "list"
             \/ p.t = "dict" /\ DOMAIN p.m # {}

(***************************************************************************)
(* The process: main and CryptoDashboard.run                               *)
(***************************************************************************)
\* logging.basicConfig: every record goes to the log file and to stdout
Emit(records) ==
    /\ log' = log \o records
    /\ screen' = screen \o [i \in 1..Len(records) |->
                               [Line("log") EXCEPT !.text = <<records[i].level,
                                                              records[i].msg,
                                                              records[i].arg>>]]

\* no earlier call of display is kept for comparison
NoTable == [done |-> FALSE, lines |-> <<>>]

\* state after CoinGeckoAPI(...) of main: the session is open
Init ==
    /\ coins \in CoinLists
    /\ update_interval \in Intervals
    /\ pc = "start"
    /\ prices = None
    /\ outcome = "none"
    /\ screen = <<>>
    /\ log = <<>>
    /\ attempts = 0
    /\ slept = <<>>
    /\ now = 0
    /\ rowIdx = 0
    /\ rendered = None
    /\ cleared = 0
    /\ closed = 0
    /\ exitStatus = "running"
    /\ interrupted = FALSE
    /\ raised = "none"
    /\ lastStatus = 0
    /\ firstTable = NoTable

\* an exception other than KeyboardInterrupt leaves the try statement of run:
\* the finally clause closes the session, the traceback ends the process
Escape(exc) ==
    /\ pc' = "crashed"
    /\ raised' = exc
    /\ closed' = closed + 1
    /\ exitStatus' = "failure"

\* lines 171-176: the two info records, then the first request is issued
RunStart ==
    /\ pc = "start"
    /\ Emit(<<Record("INFO", "Starting Crypto Dashboard", <<>>),
              Record("INFO", "Tracking: ", Join(coins, <<",", " ">>))>>)
    /\ pc' = "fetch"
    /\ attempts' = attempts + 1
    /\ UNCHANGED <<rendered, coins, update_interval, prices, outcome, slept,
                   now, rowIdx, cleared, closed, exitStatus, interrupted,
                   raised>>
    /\ lastStatus' = 0
    /\ UNCHANGED firstTable

\* variant: after a failed call run falls back on the QuoteSet it still holds
FetchReturn_KeepsLast(t) ==
    /\ pc = "fetch"
    /\ outcome' = FailureKind(t)
    /\ lastStatus' = t.status
    /\ Emit(fetch_prices(t).logs)
    /\ prices' = IF TryBlock(t) = "none" THEN fetch_prices(t).ret ELSE prices
    /\ pc' = IF Truthy(prices') THEN "display" ELSE "notice"
    /\ UNCHANGED <<raised, closed, exitStatus>>
    /\ UNCHANGED <<rendered, coins, update_interval, attempts, slept, now,
                   rowIdx, cleared, interrupted>>
    /\ UNCHANGED firstTable

\* variant: the client issues the request again after a timeout
FetchReturn_Retries(t) ==
    /\ pc = "fetch"
    /\ outcome' = FailureKind(t)
    /\ lastStatus' = t.status
    /\ Emit(fetch_prices(t).logs)
    /\ IF IsInstance(TryBlock(t), "Timeout") /\ attempts < MaxCycles
       THEN /\ attempts' = attempts + 1
            /\ UNCHANGED <<prices, pc>>
       ELSE /\ prices' = fetch_prices(t).ret
            /\ pc' = IF Truthy(fetch_prices(t).ret) THEN "display" ELSE "notice"
            /\ UNCHANGED attempts
    /\ UNCHANGED <<raised, closed, exitStatus>>
    /\ UNCHANGED <<rendered, coins, update_interval, slept, now, rowIdx,
                   cleared, interrupted>>
    /\ UNCHANGED firstTable

\* line 176-178: the pending request ends with t, fetch_prices returns;
\* lastStatus is the status code of the response, 0 when there is none; the
\* response is a local of fetch_prices, so every later step sets it back to 0
FetchReturn(t) ==
    /\ pc = "fetch"
    /\ outcome' = FailureKind(t)
    /\ lastStatus' = t.status
    /\ Emit(fetch_prices(t).logs)
    /\ IF fetch_prices(t).escapes # "none"
       THEN /\ Escape(fetch_prices(t).escapes)
            /\ UNCHANGED prices
       ELSE /\ prices' = fetch_prices(t).ret
            /\ pc' = IF Truthy(fetch_prices(t).ret) THEN "display" ELSE "notice"
            /\ UNCHANGED <<raised, closed, exitStatus>>
    /\ UNCHANGED <<rendered, coins, update_interval, attempts, slept, now,
                   rowIdx, cleared, interrupted>>
    /\ UNCHANGED firstTable

\* variant: the header carries the number of the render
DisplayHeader_Numbered ==
    /\ pc = "display"
    /\ cleared' = cleared + 1
    /\ screen' = <<Line("rule"),
                   [Line("header") EXCEPT !.text = <<cleared + 1>>],
                   Line("rule")>>
    /\ rendered' = prices
    /\ rowIdx' = 1
    /\ pc' = "rows"
    /\ UNCHANGED <<coins, update_interval, prices, outcome, log, attempts,
                   slept, now, closed, exitStatus, interrupted, raised>>
    /\ lastStatus' = 0
    /\ UNCHANGED firstTable

\* display, lines 143-148: clear_screen, then the three header lines;
\* rendered is the parameter prices of the call, alive until display returns
DisplayHeader ==
    /\ pc = "display"
    /\ cleared' = cleared + 1
    /\ screen' = <<Line("rule"), Line("header"), Line("rule")>>
    /\ rendered' = prices
    /\ rowIdx' = 1
    /\ pc' = "rows"
    /\ UNCHANGED <<coins, update_interval, prices, outcome, log, attempts,
                   slept, now, closed, exitStatus, interrupted, raised>>
    /\ lastStatus' = 0
    /\ UNCHANGED firstTable

\* variant: identifiers missing from the mapping are skipped
DisplayNextRow_SkipMissing ==
    /\ pc = "rows"
    /\ rowIdx <= Len(coins)
    /\ IF prices.t = "dict" /\ coins[rowIdx] \notin DOMAIN prices.m
       THEN /\ rowIdx' = rowIdx + 1
            /\ UNCHANGED <<screen, pc, raised, closed, exitStatus>>
       ELSE LET r == DisplayRow(coins[rowIdx], prices) IN
            IF r.ok
            THEN /\ screen' = Append(screen, RowLine(r))
                 /\ rowIdx' = rowIdx + 1
                 /\ UNCHANGED <<pc, raised, closed, exitStatus>>
            ELSE /\ Escape(r.exc)
                 /\ UNCHANGED <<screen, rowIdx>>
    /\ UNCHANGED <<rendered, coins, update_interval, prices, outcome, log,
                   attempts, slept, now, cleared, interrupted>>
    /\ lastStatus' = 0
    /\ UNCHANGED firstTable

\* display, lines 151-159: one turn of the for loop
DisplayNextRow ==
    /\ pc = "rows"
    /\ rowIdx <= Len(coins)
    /\ LET r == DisplayRow(coins[rowIdx], prices) IN
       IF r.ok
       THEN /\ screen' = Append(screen, RowLine(r))
            /\ rowIdx' = rowIdx + 1
            /\ UNCHANGED <<pc, raised, closed, exitStatus>>
       ELSE /\ Escape(r.exc)
            /\ UNCHANGED <<screen, rowIdx>>
    /\ UNCHANGED <<rendered, coins, update_interval, prices, outcome, log,
                   attempts, slept, now, cleared, interrupted>>
    /\ lastStatus' = 0
    /\ UNCHANGED firstTable

\* display, lines 161-163: closing rule, timestamp, hint; back in run
DisplayFooter ==
    /\ pc = "rows"
    /\ rowIdx > Len(coins)
    /\ screen' = screen \o <<Line("rule"), Line("blank"),
                             [Line("updated") EXCEPT !.text = <<now>>],
                             Line("hint")>>
    /\ rowIdx' = 0
    /\ rendered' = None
    /\ pc' = "sleep"
    /\ UNCHANGED <<coins, update_interval, prices, outcome, log, attempts,
                   slept, now, cleared, closed, exitStatus, interrupted,
                   raised>>
    /\ lastStatus' = 0
    /\ UNCHANGED firstTable

\* f"Failed to fetch prices. Retrying in {update_interval}s..."
NoticeLine(n) ==
    [Line("notice") EXCEPT !.text = <<"Failed to fetch prices. Retrying in ",
                                      ToString(n), "s...">>]

\* variant: the failure path clears the screen before it prints the notice
Notice_Clears ==
    /\ pc = "notice"
    /\ log' = Append(log, Record("WARNING", "Failed to fetch prices", <<>>))
    /\ cleared' = cleared + 1
    /\ screen' =
          <<NoticeLine(update_interval),
            [Line("log") EXCEPT !.text = <<"WARNING", "Failed to fetch prices",
                                           <<>>>>]>>
    /\ pc' = "sleep"
    /\ UNCHANGED <<rendered, coins, update_interval, prices, outcome,
                   attempts, slept, now, rowIdx, closed, exitStatus,
                   interrupted, raised>>
    /\ lastStatus' = 0
    /\ UNCHANGED firstTable

\* run, lines 181-182: the notice on the screen, then the warning record
Notice ==
    /\ pc = "notice"
    /\ log' = Append(log, Record("WARNING", "Failed to fetch prices", <<>>))
    /\ screen' = screen \o
          <<NoticeLine(update_interval),
            [Line("log") EXCEPT !.text = <<"WARNING", "Failed to fetch prices",
                                           <<>>>>]>>
    /\ pc' = "sleep"
    /\ UNCHANGED <<rendered, coins, update_interval, prices, outcome,
                   attempts, slept, now, rowIdx, cleared, closed, exitStatus,
                   interrupted, raised>>
    /\ lastStatus' = 0
    /\ UNCHANGED firstTable

\* run, line 184 and the next turn of the while loop: time.sleep raises
\* ValueError for a negative length, otherwise the next request is issued
Sleep ==
    /\ pc = "sleep"
    /\ IF update_interval < 0
       THEN /\ Escape("ValueError")
            /\ UNCHANGED <<slept, now, attempts>>
       ELSE /\ attempts < MaxCycles
            /\ slept' = Append(slept, update_interval)
            /\ now' = now + update_interval
            /\ attempts' = attempts + 1
            /\ pc' = "fetch"
            /\ UNCHANGED <<raised, closed, exitStatus>>
    /\ UNCHANGED <<rendered, coins, update_interval, prices, outcome, screen,
                   log, rowIdx, cleared, interrupted>>
    /\ lastStatus' = 0
    /\ UNCHANGED firstTable

InTry == {"fetch", "display", "rows", "notice", "sleep"}

\* variant: a bare "except:" in fetch_prices swallows the KeyboardInterrupt
\* raised while the request is pending, and the call returns None
Interrupt_Swallowed ==
    /\ pc \in InTry \cup {"start"}
    /\ ~interrupted
    /\ interrupted' = TRUE
    /\ IF pc = "fetch"
       THEN /\ prices' = None
            /\ pc' = "notice"
            /\ UNCHANGED <<log, screen, closed, exitStatus, raised>>
       ELSE IF pc \in InTry
       THEN /\ log' = Append(log, Record("INFO", "Dashboard stopped by user",
                                         <<>>))
            /\ screen' = screen \o
                  <<Line("blank"), Line("blank"), Line("farewell"),
                    [Line("log") EXCEPT !.text =
                        <<"INFO", "Dashboard stopped by user", <<>>>>]>>
            /\ closed' = closed + 1
            /\ pc' = "stopped"
            /\ exitStatus' = "success"
            /\ UNCHANGED <<raised, prices>>
       ELSE /\ pc' = "crashed"
            /\ raised' = "KeyboardInterrupt"
            /\ exitStatus' = "failure"
            /\ UNCHANGED <<log, screen, closed, prices>>
    /\ UNCHANGED <<rendered, coins, update_interval, outcome, attempts,
                   slept, now, rowIdx, cleared>>
    /\ lastStatus' = 0
    /\ UNCHANGED firstTable

\* variant: the try statement is inside the while loop, so that the handler
\* closes the session and the loop goes on with the sleep
Interrupt_ClosesAndContinues ==
    /\ pc \in InTry \cup {"start"}
    /\ ~interrupted
    /\ interrupted' = TRUE
    /\ IF pc \in InTry
       THEN /\ log' = Append(log, Record("INFO", "Dashboard stopped by user",
                                         <<>>))
            /\ screen' = screen \o
                  <<Line("blank"), Line("blank"), Line("farewell"),
                    [Line("log") EXCEPT !.text =
                        <<"INFO", "Dashboard stopped by user", <<>>>>]>>
            /\ closed' = closed + 1
            /\ pc' = "sleep"
            /\ UNCHANGED <<raised, exitStatus>>
       ELSE /\ pc' = "crashed"
            /\ raised' = "KeyboardInterrupt"
            /\ exitStatus' = "failure"
            /\ UNCHANGED <<log, screen, closed>>
    /\ UNCHANGED <<rendered, coins, update_interval, prices, outcome,
                   attempts, slept, now, rowIdx, cleared>>
    /\ lastStatus' = 0
    /\ UNCHANGED firstTable

\* SIGINT: KeyboardInterrupt is raised at the current statement. Inside the
\* try statement of run the handler prints the farewell, logs, the finally
\* clause closes the session and main returns; before it nothing catches it.
Interrupt ==
    /\ pc \in InTry \cup {"start"}
    /\ ~interrupted
    /\ interrupted' = TRUE
    /\ IF pc \in InTry
       THEN /\ log' = Append(log, Record("INFO", "Dashboard stopped by user",
                                         <<>>))
            /\ screen' = screen \o
                  <<Line("blank"), Line("blank"), Line("farewell"),
                    [Line("log") EXCEPT !.text =
                        <<"INFO", "Dashboard stopped by user", <<>>>>]>>
            /\ closed' = closed + 1
            /\ pc' = "stopped"
            /\ exitStatus' = "success"
            /\ UNCHANGED raised
       ELSE /\ pc' = "crashed"
            /\ raised' = "KeyboardInterrupt"
            /\ exitStatus' = "failure"
            /\ UNCHANGED <<log, screen, closed>>
    /\ UNCHANGED <<rendered, coins, update_interval, prices, outcome,
                   attempts, slept, now, rowIdx, cleared>>
    /\ lastStatus' = 0
    /\ UNCHANGED firstTable

Next ==
    \/ RunStart
    \/ \E t \in TransportOutcomes : FetchReturn(t)
    \/ DisplayHeader
    \/ DisplayNextRow
    \/ DisplayFooter
    \/ Notice
    \/ Sleep
    \/ Interrupt

Spec == Init /\ [][Next]_vars

\* display(prices) on its own, lines 136-163: a Dashboard with any configured
\* list, called with any truthy parsed body, as run calls it at line 179
InitTwice ==
    /\ coins \in CoinLists
    /\ update_interval \in Intervals
    /\ prices \in {b \in Bodies : Truthy(b)}
    /\ now \in 0..1
    /\ pc = "display"
    /\ outcome = "Success"
    /\ lastStatus = 200
    /\ attempts = 1
    /\ screen = <<>>
    /\ log = <<>>
    /\ slept = <<>>
    /\ rowIdx = 0
    /\ rendered = None
    /\ cleared = 0
    /\ closed = 0
    /\ exitStatus = "running"
    /\ interrupted = FALSE
    /\ raised = "none"
    /\ firstTable = NoTable

\* the first call has returned: its output is kept, time passes, and display
\* is called again with the same argument
CallAgain ==
    /\ pc = "sleep"
    /\ ~firstTable.done
    /\ firstTable' = [done |-> TRUE, lines |-> screen]
    /\ now' = now + 1
    /\ pc' = "display"
    /\ UNCHANGED <<rendered, coins, update_interval, prices, outcome, screen,
                   log, attempts, slept, rowIdx, cleared, closed, exitStatus,
                   interrupted, raised, lastStatus>>

NextTwice ==
    \/ DisplayHeader
    \/ DisplayNextRow
    \/ DisplayFooter
    \/ CallAgain

SpecTwice == InitTwice /\ [][NextTwice]_vars

TypeOK ==
    /\ pc \in InTry \cup {"start", "stopped", "crashed"}
    /\ closed \in 0..1
    /\ attempts \in 0..MaxCycles

(***************************************************************************)
(* Vocabulary of the properties.                                           *)
(***************************************************************************)
\* the table rows on the screen, top to bottom
Rows == SelectSeq(screen, LAMBDA l : l.kind = "row")

\* display is at work on a mapping (a call is in progress, or it raised)
Rendering == rendered.t = "dict" /\ (pc = "rows" \/ raised \in {"TypeError", "AttributeError"})

\* the Quote of the i-th configured identifier in the mapping being rendered
QuoteOf(i) == IF coins[i] \in DOMAIN rendered.m THEN rendered.m[coins[i]]
              ELSE EmptyObj

\* the mapping being rendered with the Quote of identifier k replaced by q
WithQuote(k, q) ==
    Dict([x \in DOMAIN rendered.m \cup {k} |->
             IF x = k THEN q ELSE rendered.m[x]])

IsNumOrAbsent(f) == f.t \in {"num", "absent"}

\* a QuoteSet of the data model: every entry an object of optional numbers
IsQuoteSet(p) ==
    /\ p.t = "dict"
    /\ \A k \in DOMAIN p.m : /\ p.m[k].t = "obj"
                             /\ IsNumOrAbsent(p.m[k].usd)
                             /\ IsNumOrAbsent(p.m[k].usd_24h_change)

\* price absent, zero or negative
PriceGated(q) == /\ q.t = "obj"
                 /\ \/ q.usd.t = "absent"
                    \/ q.usd.t = "num" /\ q.usd.v <= 0

PricePositive(q) == q.t = "obj" /\ q.usd.t = "num" /\ q.usd.v > 0

\* a step of the run that is not the delivery of the interrupt
NoInterrupt == interrupted' = interrupted

DisplayRaised == pc = "crashed" /\ raised \in {"TypeError", "AttributeError"}

(***************************************************************************)
(* C1: no failure kind of the Quote Client terminates the loop: when the   *)
(* pending request ends in Timeout, ConnectionFailure, HTTPStatusError,    *)
(* ParseError or OtherTransportError, run goes on to the failure notice    *)
(* with the process alive and the session open; the loop leaves the fetch  *)
(* step for a terminal state only by the user interrupt, and the Stopped   *)
(* state is entered only by the user interrupt.                            *)
(***************************************************************************)
C1_FailureKeepsRunning ==
    /\ [][(pc = "fetch" /\ NoInterrupt /\ outcome' \in FailureKinds)
            => (pc' = "notice" /\ exitStatus' = "running" /\ raised' = "none"
                /\ closed' = closed)]_vars
    /\ [][(pc = "fetch" /\ pc' \in {"stopped", "crashed"}) => interrupted']_vars
    /\ [](pc = "stopped" => interrupted)

\* a second request is pending after the first one failed to parse
C1_Witness == pc = "fetch" /\ attempts = 2 /\ outcome = "ParseError"

(***************************************************************************)
(* C2: every fetch attempt that is not interrupted is followed by exactly  *)
(* one sleep of update_interval seconds and then by the next attempt: the  *)
(* run never ends without an interrupt, every sleep lasted update_interval,*)
(* and between two attempts there is exactly one sleep.                    *)
(***************************************************************************)
C2_SleepThenRefetch ==
    /\ exitStatus # "running" => interrupted
    /\ \A i \in 1..Len(slept) : slept[i] = update_interval
    /\ pc \in InTry => Len(slept) = attempts - 1

(***************************************************************************)
(* C3: every successful fetch takes the render path: when the request      *)
(* succeeds and returns a QuoteSet, the next thing run does is display,    *)
(* not the failure notice, also when identifiers are missing from it.      *)
(***************************************************************************)
C3_SuccessRenders ==
    [][(pc = "fetch" /\ NoInterrupt /\ outcome' = "Success"
        /\ IsQuoteSet(prices'))
         => pc' = "display"]_vars

(***************************************************************************)
(* C4: an absent field renders distinctly from the same field being zero:  *)
(* the price cell of a Quote without price differs from the cell the same  *)
(* Quote gets with price 0, and in a row with a positive price the change  *)
(* cell of a Quote without change differs from the cell for change 0.      *)
(***************************************************************************)
C4_AbsentDistinctFromZero ==
    Rendering =>
      \A i \in 1..Len(Rows) :
        LET q == QuoteOf(i) IN
        /\ (q.t = "obj" /\ q.usd.t = "absent")
             => Rows[i].price_str #
                  DisplayRow(coins[i],
                      WithQuote(coins[i], Obj(Num(0), q.usd_24h_change))
                      ).price_str
        /\ (PricePositive(q) /\ q.usd_24h_change.t = "absent")
             => Rows[i].change_str #
                  DisplayRow(coins[i], WithQuote(coins[i], Obj(q.usd, Num(0)))
                      ).change_str

(***************************************************************************)
(* C5: price validity gates both columns: a row printed for a Quote whose  *)
(* price is absent, zero or negative shows "N/A" in the price cell and in  *)
(* the change cell, whatever the change is, and display never raises on    *)
(* such a Quote.                                                           *)
(***************************************************************************)
C5_PriceGatesBothColumns ==
    Rendering =>
      /\ \A i \in 1..Len(Rows) :
            PriceGated(QuoteOf(i))
              => Rows[i].price_str = NA /\ Rows[i].change_str = NA
      /\ DisplayRaised => ~PriceGated(QuoteOf(Len(Rows) + 1))

\* a row was printed for a Quote with a negative price and a malformed change
C5_Witness ==
    /\ Rendering
    /\ \E i \in 1..Len(Rows) :
          /\ QuoteOf(i).t = "obj"
          /\ QuoteOf(i).usd = Num(-8)
          /\ QuoteOf(i).usd_24h_change = Str
          /\ Rows[i].change_str = NA

\* the digits of a text read as a decimal number, other characters skipped
DigitValue(c) == IndexIn(c, <<"0", "1", "2", "3", "4", "5", "6", "7", "8", "9">>) - 1

RECURSIVE NumberShown(_)
NumberShown(text) ==
    IF Len(text) = 0 THEN 0
    ELSE LET front == SubSeq(text, 1, Len(text) - 1)
             c == text[Len(text)]
         IN  IF DigitValue(c) >= 0 THEN NumberShown(front) * 10 + DigitValue(c)
             ELSE NumberShown(front)

\* the change of a Quote as display reads it: 0 when the field is absent
ChangeOf(q) == IF q.usd_24h_change.t = "absent" THEN 0 ELSE q.usd_24h_change.v

\* the parts of a change cell: colour, indicator, number between them and "%"
CellColor(cell) == SubSeq(cell, 1, 5)
CellArrow(cell) == cell[6]
CellNumber(cell) == SubSeq(cell, 7, Len(cell) - 5)

(***************************************************************************)
(* C6: in a row printed for a Quote with price > 0 the direction of the    *)
(* change cell follows the sign of the change alone: change >= 0 gives the *)
(* up arrow in green, change < 0 the down arrow in red, and the number     *)
(* shown is the absolute value of the change to two decimals (within half  *)
(* a hundredth of |change|) without a minus sign.                          *)
(***************************************************************************)
C6_DirectionFollowsSign ==
    Rendering =>
      \A i \in 1..Len(Rows) :
        (PricePositive(QuoteOf(i)) /\ IsNumOrAbsent(QuoteOf(i).usd_24h_change))
          => LET c == ChangeOf(QuoteOf(i))
                 cell == Rows[i].change_str
                 shown == NumberShown(CellNumber(cell))
             IN  /\ c >= 0 => CellColor(cell) = GREEN /\ CellArrow(cell) = UpArrow
                 /\ c < 0 => CellColor(cell) = RED /\ CellArrow(cell) = DownArrow
                 /\ "-" \notin Range(cell)
                 /\ 8 * shown - 100 * Abs(c) \in -4..4

\* a row was printed for a positive price with a negative change
C6_Witness ==
    /\ Rendering
    /\ \E i \in 1..Len(Rows) :
          /\ PricePositive(QuoteOf(i))
          /\ QuoteOf(i).usd_24h_change = Num(-1)
          /\ CellArrow(Rows[i].change_str) = DownArrow

(***************************************************************************)
(* C7: display prints one row per configured identifier in configured      *)
(* order: while it renders a mapping the rows printed so far are those of  *)
(* the first identifiers of coins, in order, when the loop over coins has  *)
(* ended there are exactly Len(coins) rows, whether or not an identifier   *)
(* is in the mapping, and display does not raise on a QuoteSet.            *)
(***************************************************************************)
C7_OneRowPerIdentifier ==
    Rendering =>
      /\ Len(Rows) <= Len(coins)
      /\ \A i \in 1..Len(Rows) : Rows[i].name = Capitalize(coins[i])
      /\ (pc = "rows" /\ rowIdx > Len(coins)) => Len(Rows) = Len(coins)
      /\ pc = "rows" => Len(Rows) = rowIdx - 1
      /\ IsQuoteSet(rendered) => ~DisplayRaised

\* two rows are on the screen although only the second identifier is quoted
C7_Witness ==
    /\ Rendering
    /\ pc = "rows" /\ rowIdx > Len(coins)
    /\ Len(coins) = 2 /\ coins[1] # coins[2]
    /\ DOMAIN rendered.m = {coins[2]}
    /\ Len(Rows) = 2

\* the lines a step has added at the bottom of the screen
Added == SubSeq(screen', Len(screen) + 1, Len(screen'))

HasLine(lines, kind) == \E i \in 1..Len(lines) : lines[i].kind = kind

(***************************************************************************)
(* C8: an interrupt that arrives while the request is pending or while run *)
(* sleeps stops the loop at once: the farewell is printed, neither a table *)
(* nor a failure notice is printed by that step, no attempt is added, the  *)
(* process ends with success status, and nothing happens after Stopped.    *)
(***************************************************************************)
C8_InterruptStopsAtOnce ==
    /\ [][(pc \in {"fetch", "sleep"} /\ ~interrupted /\ interrupted')
            => /\ pc' = "stopped"
               /\ exitStatus' = "success"
               /\ raised' = "none"
               /\ Len(screen') >= Len(screen)
               /\ HasLine(Added, "farewell")
               /\ ~HasLine(Added, "row") /\ ~HasLine(Added, "notice")
               /\ ~HasLine(Added, "header")
               /\ attempts' = attempts
               /\ cleared' = cleared]_vars
    /\ [][pc = "stopped" => UNCHANGED vars]_vars

\* the run was stopped during the sleep that follows a rendered table
C8_Witness ==
    /\ pc = "stopped" /\ exitStatus = "success"
    /\ Len(Rows) > 0
    /\ HasLine(screen, "updated") /\ HasLine(screen, "farewell")

(***************************************************************************)
(* C9: the session is released on every exit path: whenever the process    *)
(* has terminated after CoinGeckoAPI was constructed, close has been       *)
(* called.                                                                 *)
(***************************************************************************)
C9_ClosedOnEveryExit == exitStatus # "running" => closed >= 1

\* the text by which the records of the client name each failure kind
KindText(kind) ==
    CASE kind = "Timeout" -> {"Request timed out"}
      [] kind = "ConnectionFailure" ->
            {"Connection error - check your internet connection"}
      [] kind = "HTTPStatusError" -> {"HTTP error: "}
      [] OTHER -> {"Request failed: "}

(***************************************************************************)
(* C10: for every failed fetch the log holds a record at warning level     *)
(* that identifies the failure kind that occurred, and the notice on the   *)
(* screen is the same line for every kind.                                 *)
(***************************************************************************)
C10_WarningNamesKind ==
    (pc = "sleep" /\ outcome \in FailureKinds) =>
      /\ \E i \in 1..Len(log) : /\ log[i].level = "WARNING"
                                /\ log[i].msg \in KindText(outcome)
      /\ \E i \in 1..Len(screen) : screen[i] = NoticeLine(update_interval)

\* the class of a log record: its level and its fixed text, without detail
RecordClass(r) == <<r.level, r.msg>>

(***************************************************************************)
(* C11: fetch_prices classifies the five failure conditions distinctly:    *)
(* after a failed call nothing is returned as a result, and the record the *)
(* call has logged is of a class that the call logs for no other failure   *)
(* kind.                                                                   *)
(***************************************************************************)
C11_KindsDistinct ==
    (pc = "notice" /\ outcome \in FailureKinds) =>
      /\ prices = None
      /\ \A t \in TransportOutcomes :
            (FailureKind(t) \in FailureKinds /\ FailureKind(t) # outcome)
              => \A i \in 1..Len(fetch_prices(t).logs) :
                    RecordClass(fetch_prices(t).logs[i])
                      # RecordClass(log[Len(log)])

\* the lines of a sequence that are not log records
Printed(lines) == SelectSeq(lines, LAMBDA l : l.kind # "log")

IsPrefix(a, b) == Len(a) <= Len(b) /\ SubSeq(b, 1, Len(a)) = a

(***************************************************************************)
(* C12: the failure path leaves the previous render untouched: the step    *)
(* that ends a fetch without a result and the notice step keep every line  *)
(* of the screen and do not clear it, the only line printed besides log    *)
(* records is the notice with N = update_interval, the screen is cleared   *)
(* only by the first step of display, once, leaving no row, and the rows   *)
(* on the screen during a render are those of that render.                 *)
(***************************************************************************)
C12_FailureKeepsRender ==
    /\ [][(pc = "fetch" /\ pc' = "notice")
            => /\ cleared' = cleared
               /\ IsPrefix(screen, screen')
               /\ Printed(Added) = <<>>]_vars
    /\ [][(pc = "notice" /\ NoInterrupt)
            => /\ cleared' = cleared
               /\ IsPrefix(screen, screen')
               /\ Len(Printed(Added)) = 1
               /\ Printed(Added)[1].kind = "notice"
               /\ Printed(Added)[1].text[2] = ToString(update_interval)]_vars
    /\ [][cleared' # cleared
            => /\ pc = "display"
               /\ cleared' = cleared + 1
               /\ ~HasLine(screen', "row")]_vars
    /\ [](pc = "rows" => Len(Rows) = rowIdx - 1)

\* the notice of a failed second cycle stands below the table of the first
C12_Witness ==
    /\ pc = "sleep" /\ attempts = 2
    /\ outcome \in FailureKinds
    /\ Len(Rows) > 0
    /\ screen[Len(screen) - 1].kind = "notice"

(***************************************************************************)
(* C13: no QuoteSet outlives its cycle: display is entered only from the   *)
(* fetch step of the same iteration and only when that fetch succeeded, it *)
(* renders the value that fetch returned, a failed fetch leaves run with   *)
(* no QuoteSet at all, and no other step changes the QuoteSet held by run. *)
(***************************************************************************)
C13_NoStaleQuoteSet ==
    /\ [][pc' = "display" => (pc = "fetch" /\ outcome' = "Success")]_vars
    /\ [][(pc = "fetch" /\ NoInterrupt /\ outcome' \in FailureKinds)
            => (prices' = None /\ pc' = "notice")]_vars
    /\ [][prices' # prices => pc = "fetch"]_vars
    /\ [](pc = "rows" => rendered = prices)
    /\ [][(pc = "notice" /\ NoInterrupt) => Rows' = Rows]_vars

\* the second render is at work on the QuoteSet of the second fetch
C13_Witness ==
    /\ pc = "rows" /\ attempts = 2 /\ cleared = 2
    /\ rendered = prices /\ rendered.t = "dict"
    /\ Len(Rows) = Len(coins)

(***************************************************************************)
(* C14: one network attempt per call and one call per cycle: the number of *)
(* requests issued equals the number of cycles started (one more than the  *)
(* sleeps completed), the end of a request, whatever its outcome, issues   *)
(* no further request, and a request is issued only when none is pending.  *)
(***************************************************************************)
C14_OneRequestPerCycle ==
    /\ [](pc \in InTry => attempts = Len(slept) + 1)
    /\ [](attempts <= Len(slept) + 1)
    /\ [][pc = "fetch" => attempts' = attempts]_vars
    /\ [][attempts' # attempts
            => /\ attempts' = attempts + 1
               /\ pc \in {"start", "sleep"}
               /\ pc' = "fetch"]_vars

\* the second request is pending after one sleep
C14_Witness == pc = "fetch" /\ attempts = 2 /\ Len(slept) = 1

(***************************************************************************)
(* C15: rendering never crashes on the shape of a parsed response: display *)
(* raises no exception, whatever value fetch_prices has returned.          *)
(***************************************************************************)
C15_RenderNeverRaises == raised \notin {"TypeError", "AttributeError"}

(***************************************************************************)
(* C16: an invalid configuration is rejected at startup: with an update    *)
(* interval that is zero or negative no fetch attempt is ever issued and   *)
(* nothing is rendered.                                                    *)
(***************************************************************************)
C16_InvalidConfigRejected ==
    update_interval <= 0 => (attempts = 0 /\ cleared = 0 /\ pc # "fetch")

(***************************************************************************)
(* C18: a table is rendered only from a response with a success status:    *)
(* when the request ends with a status code outside 200..299, fetch_prices *)
(* returns None and display is not entered.                                *)
(***************************************************************************)
C18_OnlySuccessStatusRenders ==
    [][(pc = "fetch" /\ NoInterrupt /\ lastStatus' # 0
        /\ lastStatus' \notin 200..299)
         => (prices' = None /\ pc' # "display")]_vars

(***************************************************************************)
(* C19: the session is never used after release: close is called at most   *)
(* once, and once it has been called the run takes no further step.        *)
(***************************************************************************)
C19_NoUseAfterClose ==
    /\ [](closed <= 1)
    /\ [][closed >= 1 => UNCHANGED vars]_vars
    /\ [](closed >= 1 => pc \in {"stopped", "crashed"})

\* the session was closed by the finally clause when display raised
C19_Witness == closed = 1 /\ pc = "crashed" /\ raised = "TypeError"


\* the header and the rows of an output, without the line that carries the
\* time of the render
TableContent(lines) == SelectSeq(lines, LAMBDA l : l.kind # "updated")

\* C17: rendering is idempotent and deterministic: when display has been
\* called twice with the same QuoteSet and the same configuration, at two
\* different times, the second output has the same header and the same rows,
\* in the same order, as the first, the timestamp line of the footer apart;
\* and no step of display changes the QuoteSet, the coin list or the interval.
C17_RenderIdempotent ==
    /\ []((pc = "sleep" /\ firstTable.done)
            => TableContent(screen) = TableContent(firstTable.lines))
    /\ [][(pc = "display" \/ pc = "rows")
            => (prices' = prices /\ coins' = coins
                /\ update_interval' = update_interval)]_vars

\* the second call has returned, in a later second than the first, with a
\* table of two rows of which one shows a price and one shows N/A
C17_Witness ==
    /\ pc = "sleep"
    /\ firstTable.done
    /\ cleared = 2
    /\ Len(Rows) = 2
    /\ \E i, j \in 1..2 : Rows[i].price_str = NA /\ Rows[j].price_str # NA
    /\ \E i \in 1..Len(screen) :
          /\ screen[i].kind = "updated"
          /\ firstTable.lines[i].kind = "updated"
          /\ screen[i].text # firstTable.lines[i].text

====
